---- MODULE Spec2Model ----
(***************************************************************************)
(* A model of the Webscraper repository: the container auto-detection of   *)
(* app.py (auto_detect_containers), the custom-scraper extraction loop of  *)
(* app.py, the fixed-profile scrapers of scraper.py (fetch_page,           *)
(* scrape_quotes, scrape_books) and the timing of the HTTP fetches.        *)
(***************************************************************************)
EXTENDS Naturals, Sequences, FiniteSets, TLC

VARIABLES
    doc,          \* the parsed page given to auto_detect_containers (pre-order node list)
    dpc,          \* "build" while the page is assembled, "done" once detection returned
    fetched,      \* whether requests.get/raise_for_status of auto_detect_containers succeeded
    candidates,   \* the list auto_detect_containers returned
    matched,      \* custom scraper: the text nodes of each element soup.select(container_selector) finds
    nruns,        \* custom scraper: how many runs of text nodes the page was assembled from
    max_items,    \* custom scraper: the slider value
    xpc,          \* custom scraper: "build" while the page is assembled, "done" after the button's handler
    data,         \* custom scraper: the records collected
    outcome,      \* custom scraper: what the handler reported
    profile,      \* fixed profiles: "quotes" or "books"
    site,         \* fixed profiles: the response the server gives to each request, in order
    fpc,          \* fixed profiles: "build" while the site is assembled, "done" after the scrape
    records,      \* fixed profiles: the list the scrape returned
    raised,       \* fixed profiles: the exception that left the scrape, "none" if it returned
    fetches,      \* fixed profiles: the pages fetch_page was called for, in order
    apc,          \* timing: "idle", or where the running handler is: "sleep", "get", "wait"
    handler,      \* timing: the handler that runs, or ran last
    pagesLeft,    \* timing: fetch_page calls the running scrape still has to make
    selected,     \* timing: st.session_state.selected_container is set
    since,        \* timing: time waited since the last response, up to Delay
    inflight,     \* timing: requests sent and not yet answered
    nfetch,       \* timing: requests sent so far
    lastGap       \* timing: the value of since when the last request was sent

dvars == <<doc, dpc, fetched, candidates>>
xvars == <<matched, nruns, max_items, xpc, data, outcome>>
fvars == <<profile, site, fpc, records, raised, fetches>>
avars == <<apc, handler, pagesLeft, selected, since, inflight, nfetch, lastGap>>
vars == <<dvars, xvars, fvars, avars>>

(***************************************************************************)
(* Bounds of the model.                                                    *)
(***************************************************************************)
MaxBlocks == 3    \* top-level elements of a page
MaxKids == 3      \* child elements of a top-level element
MaxContainers == 2   \* elements the container selector matches
MaxRuns == 3         \* runs of equal text nodes on a page of the custom scraper
MaxPages == 3        \* pages of the book catalogue
MaxEntries == 2      \* quote or book blocks on the whole site
MaxFetches == 4      \* requests sent in one session of the app

(***************************************************************************)
(* Program constants of auto_detect_containers.                            *)
(***************************************************************************)
MostCommonLimit == 20   \* class_counter.most_common(20)
MinCount == 3           \* count >= 3, len(elements) >= 3
MinDescendants == 2     \* len(elements[0].find_all()) > 2
TopN == 5               \* candidates[:5]

\* common_patterns, in the order of the source
common_patterns ==
    << "article", "div.item", "div.card", "div.product",
       "div.post", "li", ".listing", ".entry" >>

(***************************************************************************)
(* The document: a tree of elements kept as the list of its nodes in       *)
(* document (pre-order) order; parent is the index of the parent node, 0   *)
(* for a child of the root.  classes is the class attribute as the parser  *)
(* splits it, duplicates kept; << >> is an element without the attribute.  *)
(***************************************************************************)
Node(t, c, p) == [tag |-> t, classes |-> c, parent |-> p]

\* the class names that occur in the pages of the model
AllClasses == {"item", "card", "product", "post", "listing", "entry"}

\* heads of the top-level elements the pages are assembled from
Heads ==
    { [tag |-> "li",      classes |-> << >>],
      [tag |-> "article", classes |-> <<"item", "item">>],
      [tag |-> "div",     classes |-> <<"item">>],
      [tag |-> "div",     classes |-> <<"item", "card", "product", "post", "listing", "entry">>] }

\* the i-th child of a block: h2, p, then spans, none with a class
KidTag(i) == IF i = 1 THEN "h2" ELSE IF i = 2 THEN "p" ELSE "span"

\* the nodes of one block appended to a page that already has n nodes
Block(n, h, nk) ==
    <<Node(h.tag, h.classes, 0)>> \o [i \in 1..nk |-> Node(KidTag(i), << >>, n + 1)]

(***************************************************************************)
(* BeautifulSoup operations used by the detection.                         *)
(***************************************************************************)
RECURSIVE IsAncestor(_, _, _)
\* node a is a proper ancestor of node j
IsAncestor(d, a, j) ==
    IF d[j].parent = 0 THEN FALSE
    ELSE d[j].parent = a \/ IsAncestor(d, a, d[j].parent)

\* len(elem.find_all()): the number of descendant elements of node i
FindAllCount(d, i) == Cardinality({j \in 1..Len(d) : IsAncestor(d, i, j)})

RECURSIVE WithClassFrom(_, _)
\* the nodes k..Len(d) that have a class attribute, in document order
WithClassFrom(d, k) ==
    IF k > Len(d) THEN << >>
    ELSE (IF d[k].classes # << >> THEN <<k>> ELSE << >>) \o WithClassFrom(d, k + 1)

\* soup.find_all(class_=True)
ElementsWithClasses(d) == WithClassFrom(d, 1)

HasClass(n, c) == \E i \in 1..Len(n.classes) : n.classes[i] = c

\* what a selector string of this program means: a tag (or any), a class (or any)
ParseSelector(sel) ==
    CASE sel = "article"     -> [tag |-> "article", cls |-> ""]
      [] sel = "li"          -> [tag |-> "li", cls |-> ""]
      [] sel = "div.item"    -> [tag |-> "div", cls |-> "item"]
      [] sel = "div.card"    -> [tag |-> "div", cls |-> "card"]
      [] sel = "div.product" -> [tag |-> "div", cls |-> "product"]
      [] sel = "div.post"    -> [tag |-> "div", cls |-> "post"]
      [] OTHER -> [tag |-> "", cls |-> CHOOSE c \in AllClasses : sel = "." \o c]

\* an element matches a parsed selector
Matches(n, s) ==
    /\ (s.tag = "" \/ n.tag = s.tag)
    /\ (s.cls = "" \/ HasClass(n, s.cls))

RECURSIVE SelectFrom(_, _, _)
\* the nodes k..Len(d) matching s, in document order
SelectFrom(d, s, k) ==
    IF k > Len(d) THEN << >>
    ELSE (IF Matches(d[k], s) THEN <<k>> ELSE << >>) \o SelectFrom(d, s, k + 1)

\* soup.select(selector): the matching nodes in document order
Select(d, sel) == SelectFrom(d, ParseSelector(sel), 1)

(***************************************************************************)
(* collections.Counter: entries in first-seen order.                       *)
(***************************************************************************)
RECURSIVE CounterAdd(_, _, _)
\* counter[c] += 1, from entry k on
CounterAdd(cnt, c, k) ==
    IF k > Len(cnt) THEN cnt \o <<[cls |-> c, count |-> 1]>>
    ELSE IF cnt[k].cls = c THEN [cnt EXCEPT ![k].count = @ + 1]
    ELSE CounterAdd(cnt, c, k + 1)

RECURSIVE CountClasses(_, _, _)
\* for cls in classes: class_counter[cls] += 1
CountClasses(cnt, cs, k) ==
    IF k > Len(cs) THEN cnt
    ELSE CountClasses(CounterAdd(cnt, cs[k], 1), cs, k + 1)

RECURSIVE CountElements(_, _, _, _)
\* for elem in elements_with_classes: ...
CountElements(d, cnt, elems, k) ==
    IF k > Len(elems) THEN cnt
    ELSE CountElements(d, CountClasses(cnt, d[elems[k]].classes, 1), elems, k + 1)

ClassCounter(d) == CountElements(d, << >>, ElementsWithClasses(d), 1)

RECURSIVE InsertByCount(_, _)
\* e put into a list sorted by descending count, after the entries of equal count
InsertByCount(sorted, e) ==
    IF sorted = << >> THEN <<e>>
    ELSE IF Head(sorted).count >= e.count THEN <<Head(sorted)>> \o InsertByCount(Tail(sorted), e)
    ELSE <<e>> \o sorted

RECURSIVE SortByCount(_, _, _)
SortByCount(cnt, sorted, k) ==
    IF k > Len(cnt) THEN sorted
    ELSE SortByCount(cnt, InsertByCount(sorted, cnt[k]), k + 1)

Take(s, n) == SubSeq(s, 1, IF Len(s) < n THEN Len(s) ELSE n)

\* Counter.most_common(n): descending count, ties in first-seen order
MostCommon(cnt, n) == Take(SortByCount(cnt, << >>, 1), n)

(***************************************************************************)
(* auto_detect_containers.  A candidate is the dict of the source          *)
(* (selector, count, sample); sample is kept as the index of the element   *)
(* whose markup is quoted, and source records which of the two loops made  *)
(* the candidate.                                                          *)
(***************************************************************************)
Candidate(sel, n, first, src) ==
    [selector |-> sel, count |-> n, sample |-> first, source |-> src]

\* selector = f".{cls}"
ClassSelector(c) == "." \o c

\* FrequencyKeeps with the count test written count > 3
FrequencyKeepsStrict(d, e) ==
    /\ e.count > MinCount
    /\ LET elements == Select(d, "." \o e.cls)
       IN elements # << >> /\ FindAllCount(d, elements[1]) > MinDescendants

\* FrequencyKeeps with the depth test written >= 2
FrequencyKeepsShallow(d, e) ==
    /\ e.count >= MinCount
    /\ LET elements == Select(d, "." \o e.cls)
       IN elements # << >> /\ FindAllCount(d, elements[1]) >= MinDescendants

\* the condition under which a counted class becomes a candidate
FrequencyKeeps(d, e) ==
    /\ e.count >= MinCount
    /\ LET elements == Select(d, ClassSelector(e.cls))
       IN elements # << >> /\ FindAllCount(d, elements[1]) > MinDescendants

FrequencyCandidate(d, e) ==
    Candidate(ClassSelector(e.cls), e.count, Select(d, ClassSelector(e.cls))[1], "frequency")

RECURSIVE FrequencyLoop(_, _, _, _)
\* for cls, count in class_counter.most_common(20): ... candidates.append(...)
FrequencyLoop(d, common, cands, k) ==
    IF k > Len(common) THEN cands
    ELSE FrequencyLoop(d, common,
                       IF FrequencyKeeps(d, common[k])
                       THEN Append(cands, FrequencyCandidate(d, common[k]))
                       ELSE cands,
                       k + 1)

\* PatternKeeps with the threshold one lower
PatternKeepsTwo(d, pattern) == Len(Select(d, pattern)) >= MinCount - 1

\* the condition under which a pattern becomes a candidate
PatternKeeps(d, pattern) == Len(Select(d, pattern)) >= MinCount

\* PatternInsert written as candidates.append
PatternAppend(cands, c) == cands \o <<c>>

\* candidates.insert(0, {...})
PatternInsert(cands, c) == <<c>> \o cands

RECURSIVE PatternLoop(_, _, _)
\* for pattern in common_patterns: ... candidates.insert(0, ...)
PatternLoop(d, cands, k) ==
    IF k > Len(common_patterns) THEN cands
    ELSE LET pattern == common_patterns[k]
             elements == Select(d, pattern)
         IN PatternLoop(d,
                        IF PatternKeeps(d, pattern)
                        THEN PatternInsert(cands, Candidate(pattern, Len(elements), elements[1], "pattern"))
                        ELSE cands,
                        k + 1)

\* detection that returns the whole list
DetectAll(d) ==
    LET freq == FrequencyLoop(d, MostCommon(ClassCounter(d), MostCommonLimit), << >>, 1)
    IN PatternLoop(d, freq, 1)

\* the value returned when the page was fetched and parsed
Detect(d) ==
    LET freq == FrequencyLoop(d, MostCommon(ClassCounter(d), MostCommonLimit), << >>, 1)
    IN Take(PatternLoop(d, freq, 1), TopN)

(***************************************************************************)
(* The detection as a state machine: a page is assembled block by block,   *)
(* then auto_detect_containers runs on it once.                            *)
(***************************************************************************)
NumBlocks(d) == Cardinality({i \in 1..Len(d) : d[i].parent = 0})

\* the detection is not in use
DetectOff ==
    /\ doc = << >>
    /\ dpc = "off"
    /\ fetched = FALSE
    /\ candidates = << >>

\* the custom scraper is not in use
ExtractOff ==
    /\ matched = << >>
    /\ nruns = 0
    /\ max_items = 0
    /\ xpc = "off"
    /\ data = << >>
    /\ outcome = "none"

\* the fixed profiles are not in use
FixedOff ==
    /\ profile = "none"
    /\ site = << >>
    /\ fpc = "off"
    /\ records = << >>
    /\ raised = "none"
    /\ fetches = << >>

\* the timing of the fetches is not followed
AppOff ==
    /\ apc = "off"
    /\ handler = "none"
    /\ pagesLeft = 0
    /\ selected = FALSE
    /\ since = 0
    /\ inflight = 0
    /\ nfetch = 0
    /\ lastGap = 0

InitDetect ==
    /\ doc = << >>
    /\ dpc = "build"
    /\ fetched = FALSE
    /\ candidates = << >>
    /\ ExtractOff
    /\ FixedOff
    /\ AppOff

\* one more top-level element, with nk children, on the page the server holds
AddBlock(h, nk) ==
    /\ dpc = "build"
    /\ NumBlocks(doc) < MaxBlocks
    /\ doc' = doc \o Block(Len(doc), h, nk)
    /\ UNCHANGED <<dpc, fetched, candidates>>
    /\ UNCHANGED <<xvars, fvars, avars>>

\* auto_detect_containers(url), the fetch and the parse succeeding
DetectOk ==
    /\ dpc = "build"
    /\ dpc' = "done"
    /\ fetched' = TRUE
    /\ candidates' = Detect(doc)
    /\ UNCHANGED doc
    /\ UNCHANGED <<xvars, fvars, avars>>

\* auto_detect_containers(url), requests.get or raise_for_status raising: the
\* except branch returns [] and no page was parsed
DetectFail ==
    /\ dpc = "build"
    /\ dpc' = "done"
    /\ fetched' = FALSE
    /\ candidates' = << >>
    /\ doc' = << >>
    /\ UNCHANGED <<xvars, fvars, avars>>

NextDetect ==
    \/ \E h \in Heads, nk \in 0..MaxKids : AddBlock(h, nk)
    \/ DetectOk
    \/ DetectFail

SpecDetect == InitDetect /\ [][NextDetect]_vars

(***************************************************************************)
(* The custom scraper ("Scrape Data Now").  A text node is the list of its *)
(* characters; a matched container is the list of the text nodes under it  *)
(* in document order, as find_all(string=True, recursive=True) gives them. *)
(***************************************************************************)
MaxFields == 10    \* text_elements[:10]
MinTextLen == 2    \* len(text) > 2

Blank == <<" ">>
Short == <<" ", "o", "k">>
Long == <<" ", "a", "b", "c">>
TextKinds == {Blank, Short, Long}

\* n text nodes t
Rep(t, n) == [i \in 1..n |-> t]

RECURSIVE LStrip(_)
LStrip(t) == IF t # << >> /\ Head(t) = " " THEN LStrip(Tail(t)) ELSE t

RECURSIVE RStrip(_)
RStrip(t) == IF t # << >> /\ t[Len(t)] = " " THEN RStrip(SubSeq(t, 1, Len(t) - 1)) ELSE t

\* str.strip()
Strip(t) == RStrip(LStrip(t))

RECURSIVE StripNonEmpty(_, _)
\* [t.strip() for t in text_elements if t.strip()]
StripNonEmpty(texts, k) ==
    IF k > Len(texts) THEN << >>
    ELSE (IF Strip(texts[k]) # << >> THEN <<Strip(texts[k])>> ELSE << >>)
           \o StripNonEmpty(texts, k + 1)

\* f'field_{i+1}' for the 0-based position i of enumerate: n is i + 1
FieldKey(n) == "field_" \o ToString(n)

\* if len(text) > 2
KeepsText(text) == Len(text) > MinTextLen

\* FieldSlice without the slice
FieldSliceAll(texts) == texts

\* text_elements[:10]
FieldSlice(texts) == Take(texts, MaxFields)

\* the dict built for one container: item[f'field_{i+1}'] = text
Item(container) ==
    LET texts == FieldSlice(StripNonEmpty(container, 1))
        kept == {n \in 1..Len(texts) : KeepsText(texts[n])}
    IN [key \in {FieldKey(n) : n \in kept} |->
            texts[CHOOSE n \in kept : FieldKey(n) = key]]

\* KeepsItem without the test
KeepsItemAlways(item) == TRUE

\* if item:
KeepsItem(item) == DOMAIN item # {}

RECURSIVE ExtractLoop(_, _, _)
\* for idx, container in enumerate(containers): ... data.append(item)
ExtractLoop(containers, acc, k) ==
    IF k > Len(containers) THEN acc
    ELSE ExtractLoop(containers,
                     IF KeepsItem(Item(containers[k])) THEN Append(acc, Item(containers[k])) ELSE acc,
                     k + 1)

\* soup.select(container_selector)[:max_items]
Capped(found, mi) == Take(found, mi)

InitExtract ==
    /\ matched = << >>
    /\ nruns = 0
    /\ max_items = 0
    /\ xpc = "build"
    /\ data = << >>
    /\ outcome = "none"
    /\ DetectOff
    /\ FixedOff
    /\ AppOff

\* the page has one more element the container selector matches
NewContainer ==
    /\ xpc = "build"
    /\ Len(matched) < MaxContainers
    /\ matched' = Append(matched, << >>)
    /\ UNCHANGED <<nruns, max_items, xpc, data, outcome, dvars, fvars, avars>>

\* the last matched element has n more text nodes t under it
AddTexts(t, n) ==
    /\ xpc = "build"
    /\ matched # << >>
    /\ nruns < MaxRuns
    /\ nruns' = nruns + 1
    /\ matched' = [matched EXCEPT ![Len(matched)] = @ \o Rep(t, n)]
    /\ UNCHANGED <<max_items, xpc, data, outcome, dvars, fvars, avars>>

\* the button's handler, the fetch and the parse succeeding
ScrapeOk(mi) ==
    /\ xpc = "build"
    /\ xpc' = "done"
    /\ max_items' = mi
    /\ LET containers == Capped(matched, mi)
           collected == ExtractLoop(containers, << >>, 1)
       IN /\ data' = IF containers = << >> THEN << >> ELSE collected
          /\ outcome' = IF containers = << >> THEN "no_items"
                        ELSE IF collected # << >> THEN "success"
                        ELSE "no_data"
    /\ UNCHANGED <<matched, nruns, dvars, fvars, avars>>

\* the button's handler, requests.get or raise_for_status raising
ScrapeFail(mi) ==
    /\ xpc = "build"
    /\ xpc' = "done"
    /\ max_items' = mi
    /\ data' = << >>
    /\ outcome' = "error"
    /\ matched' = << >>
    /\ nruns' = 0
    /\ UNCHANGED <<dvars, fvars, avars>>

NextExtract ==
    \/ NewContainer
    \/ \E t \in TextKinds, n \in {1, MaxFields} : AddTexts(t, n)
    \/ \E mi \in 1..MaxContainers : ScrapeOk(mi)
    \/ \E mi \in 1..MaxContainers : ScrapeFail(mi)

SpecExtract == InitExtract /\ [][NextExtract]_vars

(***************************************************************************)
(* scraper.py: WebScraper.fetch_page, scrape_quotes and scrape_books.      *)
(* A response is what the server does with one request: its status and,    *)
(* for a page that arrives, the quote or book blocks on it.  Exceptions    *)
(* are the names of their Python classes.                                  *)
(***************************************************************************)
Response(st, es) == [status |-> st, entries |-> es]

\* the ways session.get / raise_for_status fail
FetchFailures == {"http_error", "network_error", "timeout"}

\* what session.get or raise_for_status raises for a response
FetchException(resp) ==
    CASE resp.status = "http_error"    -> "HTTPError"
      [] resp.status = "network_error" -> "ConnectionError"
      [] resp.status = "timeout"       -> "Timeout"
      [] OTHER -> "none"

\* the classes except requests.exceptions.RequestException catches
RequestExceptions == {"HTTPError", "ConnectionError", "Timeout"}

\* fetch_page: the parsed page, or None; raised is what leaves the method
FetchPage(resp) ==
    LET exc == FetchException(resp)
    IN IF exc = "none" THEN [soup |-> resp.entries, none |-> FALSE, raised |-> "none"]
       ELSE IF exc \in RequestExceptions THEN [soup |-> << >>, none |-> TRUE, raised |-> "none"]
       ELSE [soup |-> << >>, none |-> TRUE, raised |-> exc]

\* a quote block: whether span.text and small.author are there, and the a.tag texts
Quote(t, a, ts) == [text |-> t, author |-> a, tags |-> ts]

QuoteKinds ==
    { Quote(TRUE, TRUE, << >>), Quote(TRUE, TRUE, <<"love", "life">>),
      Quote(FALSE, TRUE, <<"love">>), Quote(TRUE, FALSE, <<"love">>) }

RECURSIVE Join(_)
\* ', '.join(tags)
Join(ts) ==
    IF ts = << >> THEN ""
    ELSE IF Len(ts) = 1 THEN ts[1]
    ELSE ts[1] \o ", " \o Join(Tail(ts))

\* the body of the try of scrape_quotes for one block: the exception it raises, or the dict
ParseQuote(q) ==
    IF ~q.text THEN [exc |-> "AttributeError"]
    ELSE IF ~q.author THEN [exc |-> "AttributeError"]
    ELSE [exc |-> "none",
          rec |-> [quote |-> "text", author |-> "author", tags |-> Join(q.tags)]]

\* except AttributeError
QuoteCaught == {"AttributeError"}

\* a book block: which sub-elements are there, the text of p.price_color and the
\* class list of p.star-rating
Book(h, a, t, hp, p, hr, r, av) ==
    [h3 |-> h, a |-> a, title |-> t, hasPrice |-> hp, price |-> p,
     hasRating |-> hr, rating |-> r, avail |-> av]

GoodPrice == <<"£", "5", "1">>
BadPrice == <<"£", "N", "A">>
GoodRating == <<"star-rating", "Three">>

BookKinds ==
    { Book(TRUE, TRUE, TRUE, TRUE, GoodPrice, TRUE, GoodRating, TRUE),
      Book(FALSE, FALSE, FALSE, TRUE, GoodPrice, TRUE, GoodRating, TRUE),
      Book(TRUE, FALSE, FALSE, TRUE, GoodPrice, TRUE, GoodRating, TRUE),
      Book(TRUE, TRUE, FALSE, TRUE, GoodPrice, TRUE, GoodRating, TRUE),
      Book(TRUE, TRUE, TRUE, FALSE, << >>, TRUE, GoodRating, TRUE),
      Book(TRUE, TRUE, TRUE, TRUE, BadPrice, TRUE, GoodRating, TRUE),
      Book(TRUE, TRUE, TRUE, TRUE, GoodPrice, FALSE, << >>, TRUE),
      Book(TRUE, TRUE, TRUE, TRUE, GoodPrice, TRUE, <<"star-rating">>, TRUE),
      Book(TRUE, TRUE, TRUE, TRUE, GoodPrice, TRUE, GoodRating, FALSE) }

\* price.replace('£', '')
DropPound(p) == SelectSeq(p, LAMBDA ch : ch # "£")

DigitChars == {"0", "1", "2", "3", "4", "5", "6", "7", "8", "9"}

\* float(...) accepts the text
IsNumber(p) == p # << >> /\ \A i \in 1..Len(p) : p[i] \in DigitChars

RECURSIVE NumberOf(_)
\* float(...) of a text of digits
NumberOf(p) ==
    IF p = << >> THEN 0
    ELSE 10 * NumberOf(SubSeq(p, 1, Len(p) - 1))
           + (CHOOSE d \in 0..9 : ToString(d) = p[Len(p)])

\* the body of the try of scrape_books for one block: the exception it raises, or the dict
ParseBook(b, page) ==
    IF ~b.h3 THEN [exc |-> "AttributeError"]                     \* None.find('a')
    ELSE IF ~b.a THEN [exc |-> "TypeError"]                      \* None['title']
    ELSE IF ~b.title THEN [exc |-> "KeyError"]                   \* tag['title']
    ELSE IF ~b.hasPrice THEN [exc |-> "AttributeError"]          \* None.get_text
    ELSE IF ~IsNumber(DropPound(b.price)) THEN [exc |-> "ValueError"]   \* float('N/A')
    ELSE IF ~b.hasRating THEN [exc |-> "TypeError"]              \* None['class']
    ELSE IF Len(b.rating) < 2 THEN [exc |-> "IndexError"]        \* ['star-rating'][1]
    ELSE IF ~b.avail THEN [exc |-> "AttributeError"]             \* None.get_text
    ELSE [exc |-> "none",
          rec |-> [title |-> "title", price |-> NumberOf(DropPound(b.price)),
                   rating |-> b.rating[2], availability |-> "In stock", page |-> page]]

\* except (AttributeError, ValueError, KeyError)
BookCaught == {"AttributeError", "ValueError", "KeyError"}

RECURSIVE QuoteLoop(_, _, _)
\* for quote in quotes: the list so far, and the exception that left the loop
QuoteLoop(quotes, acc, k) ==
    IF k > Len(quotes) THEN [records |-> acc, raised |-> "none"]
    ELSE LET r == ParseQuote(quotes[k])
         IN IF r.exc = "none" THEN QuoteLoop(quotes, Append(acc, r.rec), k + 1)
            ELSE IF r.exc \in QuoteCaught THEN QuoteLoop(quotes, acc, k + 1)
            ELSE [records |-> acc, raised |-> r.exc]

\* scrape_quotes over the response to its one request
ScrapeQuotes(resp) ==
    LET got == FetchPage(resp)
    IN IF got.raised # "none" THEN [records |-> << >>, raised |-> got.raised, fetches |-> <<1>>]
       ELSE IF got.none THEN [records |-> << >>, raised |-> "none", fetches |-> <<1>>]
       ELSE LET r == QuoteLoop(got.soup, << >>, 1)
            IN [records |-> r.records, raised |-> r.raised, fetches |-> <<1>>]

RECURSIVE BookLoop(_, _, _, _)
\* for book in books
BookLoop(books, page, acc, k) ==
    IF k > Len(books) THEN [records |-> acc, raised |-> "none"]
    ELSE LET r == ParseBook(books[k], page)
         IN IF r.exc = "none" THEN BookLoop(books, page, Append(acc, r.rec), k + 1)
            ELSE IF r.exc \in BookCaught THEN BookLoop(books, page, acc, k + 1)
            ELSE [records |-> acc, raised |-> r.exc]

RECURSIVE PageLoop(_, _, _, _, _)
\* for page in range(1, num_pages + 1)
PageLoop(responses, num_pages, acc, called, page) ==
    IF page > num_pages THEN [records |-> acc, raised |-> "none", fetches |-> called]
    ELSE LET got == FetchPage(responses[page])
             now == Append(called, page)
         IN IF got.raised # "none" THEN [records |-> acc, raised |-> got.raised, fetches |-> now]
            ELSE IF got.none THEN PageLoop(responses, num_pages, acc, now, page + 1)
            ELSE LET r == BookLoop(got.soup, page, acc, 1)
                 IN IF r.raised # "none"
                    THEN [records |-> r.records, raised |-> r.raised, fetches |-> now]
                    ELSE PageLoop(responses, num_pages, r.records, now, page + 1)

\* scrape_books(num_pages)
ScrapeBooks(responses, num_pages) == PageLoop(responses, num_pages, << >>, << >>, 1)

RECURSIVE EntryCount(_, _)
EntryCount(responses, k) ==
    IF k > Len(responses) THEN 0 ELSE Len(responses[k].entries) + EntryCount(responses, k + 1)

InitFixed ==
    /\ profile \in {"quotes", "books"}
    /\ site = << >>
    /\ fpc = "build"
    /\ records = << >>
    /\ raised = "none"
    /\ fetches = << >>
    /\ DetectOff
    /\ ExtractOff
    /\ AppOff

\* the server will answer the next request with status st
AddResponse(st) ==
    /\ fpc = "build"
    /\ Len(site) < (IF profile = "quotes" THEN 1 ELSE MaxPages)
    /\ site' = Append(site, Response(st, << >>))
    /\ UNCHANGED <<profile, fpc, records, raised, fetches, dvars, xvars, avars>>

\* the last page has one more block e
AddEntry(e) ==
    /\ fpc = "build"
    /\ site # << >>
    /\ site[Len(site)].status = "ok"
    /\ EntryCount(site, 1) < MaxEntries
    /\ e \in (IF profile = "quotes" THEN QuoteKinds ELSE BookKinds)
    /\ site' = [site EXCEPT ![Len(site)].entries = Append(@, e)]
    /\ UNCHANGED <<profile, fpc, records, raised, fetches, dvars, xvars, avars>>

\* scraper.scrape_quotes()
RunQuotes ==
    /\ fpc = "build"
    /\ profile = "quotes"
    /\ Len(site) = 1
    /\ LET r == ScrapeQuotes(site[1])
       IN /\ records' = IF r.raised = "none" THEN r.records ELSE << >>
          /\ raised' = r.raised
          /\ fetches' = r.fetches
    /\ fpc' = "done"
    /\ UNCHANGED <<profile, site, dvars, xvars, avars>>

\* scraper.scrape_books(num_pages), the site holding num_pages responses
RunBooks ==
    /\ fpc = "build"
    /\ profile = "books"
    /\ Len(site) >= 1
    /\ LET r == ScrapeBooks(site, Len(site))
       IN /\ records' = IF r.raised = "none" THEN r.records ELSE << >>
          /\ raised' = r.raised
          /\ fetches' = r.fetches
    /\ fpc' = "done"
    /\ UNCHANGED <<profile, site, dvars, xvars, avars>>

NextFixed ==
    \/ \E st \in {"ok"} \cup FetchFailures : AddResponse(st)
    \/ \E e \in QuoteKinds \cup BookKinds : AddEntry(e)
    \/ RunQuotes
    \/ RunBooks

SpecFixed == InitFixed /\ [][NextFixed]_vars

(***************************************************************************)
(* The timing of the HTTP requests of one session of the app.  A button's  *)
(* handler runs to its end before the next click is served.  Time is       *)
(* counted in quarters of a second and only as far as the politeness delay *)
(* needs: since is the time passed since the last response arrived.        *)
(***************************************************************************)
Delay == 2    \* WebScraper(..., delay=0.5)

\* time t later, counted up to Delay
Later(t) == IF since + t > Delay THEN Delay ELSE since + t

InitApp ==
    /\ apc = "idle"
    /\ handler = "none"
    /\ pagesLeft = 0
    /\ selected = FALSE
    /\ since = 0
    /\ inflight = 0
    /\ nfetch = 0
    /\ lastGap = 0
    /\ DetectOff
    /\ ExtractOff
    /\ FixedOff

\* the user lets time pass between two clicks
Tick ==
    /\ apc = "idle"
    /\ since < Delay
    /\ since' = Later(1)
    /\ UNCHANGED <<apc, handler, pagesLeft, selected, inflight, nfetch, lastGap, dvars, xvars, fvars>>

\* "Start Scraping" with Quotes: scrape_quotes calls fetch_page once
ClickQuotes ==
    /\ apc = "idle"
    /\ nfetch < MaxFetches
    /\ handler' = "quotes"
    /\ pagesLeft' = 1
    /\ apc' = "sleep"
    /\ UNCHANGED <<selected, since, inflight, nfetch, lastGap, dvars, xvars, fvars>>

\* "Start Scraping" with Books: scrape_books calls fetch_page num_pages times
ClickBooks(num_pages) ==
    /\ apc = "idle"
    /\ nfetch + num_pages <= MaxFetches
    /\ handler' = "books"
    /\ pagesLeft' = num_pages
    /\ apc' = "sleep"
    /\ UNCHANGED <<selected, since, inflight, nfetch, lastGap, dvars, xvars, fvars>>

\* fetch_page: time.sleep(self.delay)
FetchSleep ==
    /\ apc = "sleep"
    /\ since' = Later(Delay)
    /\ apc' = "get"
    /\ UNCHANGED <<handler, pagesLeft, selected, inflight, nfetch, lastGap, dvars, xvars, fvars>>

\* "Auto-Detect Data": auto_detect_containers goes to requests.get at once
ClickDetect ==
    /\ apc = "idle"
    /\ nfetch < MaxFetches
    /\ handler' = "detect"
    /\ pagesLeft' = 1
    /\ apc' = "get"
    /\ UNCHANGED <<selected, since, inflight, nfetch, lastGap, dvars, xvars, fvars>>

\* "Scrape Data Now": the handler goes to requests.get at once
ClickScrape ==
    /\ apc = "idle"
    /\ selected
    /\ nfetch < MaxFetches
    /\ handler' = "custom"
    /\ pagesLeft' = 1
    /\ apc' = "get"
    /\ UNCHANGED <<selected, since, inflight, nfetch, lastGap, dvars, xvars, fvars>>

\* session.get / requests.get: the request is sent
SendRequest ==
    /\ apc = "get"
    /\ inflight' = inflight + 1
    /\ nfetch' = nfetch + 1
    /\ lastGap' = since
    /\ apc' = "wait"
    /\ UNCHANGED <<handler, pagesLeft, selected, since, dvars, xvars, fvars>>

\* the response, an error or the timeout ends the request; a scrape of several
\* pages goes on to its next fetch_page, any other handler ends.  With found
\* the detection gave candidates and the user picked one.
Answer(found) ==
    /\ apc = "wait"
    /\ inflight' = inflight - 1
    /\ since' = 0
    /\ pagesLeft' = pagesLeft - 1
    /\ apc' = IF pagesLeft > 1 THEN "sleep" ELSE "idle"
    /\ selected' = IF handler = "detect" THEN (selected \/ found) ELSE selected
    /\ UNCHANGED <<handler, nfetch, lastGap, dvars, xvars, fvars>>

NextApp ==
    \/ Tick
    \/ ClickQuotes
    \/ \E n \in 1..MaxPages : ClickBooks(n)
    \/ FetchSleep
    \/ ClickDetect
    \/ ClickScrape
    \/ SendRequest
    \/ \E found \in BOOLEAN : Answer(found)

SpecApp == InitApp /\ [][NextApp]_vars

(***************************************************************************)
(* Vocabulary of the claims about the detection, stated on the page itself *)
(* and not through the counter of the program.                             *)
(***************************************************************************)
Returned == dpc = "done" /\ fetched

RECURSIVE OccurrencesUpTo(_, _, _)
\* how many times class c is written in the class attributes of nodes 1..n
OccurrencesUpTo(d, c, n) ==
    IF n = 0 THEN 0
    ELSE OccurrencesUpTo(d, c, n - 1)
           + Cardinality({k \in 1..Len(d[n].classes) : d[n].classes[k] = c})

\* how many times class c is written in the class attributes of the page
Occurrences(d, c) == OccurrencesUpTo(d, c, Len(d))

Carriers(d, c) == {i \in 1..Len(d) : HasClass(d[i], c)}

\* the first element of the page that carries class c
FirstCarrier(d, c) ==
    CHOOSE i \in 1..Len(d) : HasClass(d[i], c) /\ \A j \in 1..(i - 1) : ~HasClass(d[j], c)

Descendants(d, i) == {j \in 1..Len(d) : IsAncestor(d, i, j)}

\* class c occurs at least 3 times and its first element has more than 2 descendants
Qualifies(d, c) ==
    /\ Occurrences(d, c) >= 3
    /\ Cardinality(Descendants(d, FirstCarrier(d, c))) > 2

\* where class c is first written: the element, and the place in its class list
FirstSeen(d, c) ==
    LET i == FirstCarrier(d, c)
    IN <<i, CHOOSE k \in 1..Len(d[i].classes) :
                d[i].classes[k] = c /\ \A m \in 1..(k - 1) : d[i].classes[m] # c>>

Earlier(a, b) == a[1] < b[1] \/ (a[1] = b[1] /\ a[2] < b[2])

\* x is counted before c by most_common: more frequent, or as frequent and seen
\* first; occ and first give each class its occurrences and its first place
CountedBefore(occ, first, x, c) ==
    \/ occ[x] > occ[c]
    \/ occ[x] = occ[c] /\ Earlier(first[x], first[c])

\* the classes of the page
Present(d) == {c \in AllClasses : Carriers(d, c) # {}}

TagCount(d, t) == Cardinality({i \in 1..Len(d) : d[i].tag = t})

\* the patterns of the fixed list that select at least 3 elements of the page
MatchingPatterns(d) ==
    {k \in 1..Len(common_patterns) : Len(Select(d, common_patterns[k])) >= 3}

HasFrequencyCandidate(c) ==
    \E i \in 1..Len(candidates) :
        /\ candidates[i].source = "frequency"
        /\ candidates[i].selector = "." \o c
        /\ candidates[i].count = Occurrences(doc, c)

NoClasses(d) == \A i \in 1..Len(d) : d[i].classes = << >>

\* C1: in the returned list every candidate of the pattern list stands before
\* every candidate of the class-frequency heuristic, whatever the counts.
C1_PatternsFirst ==
    dpc = "done" =>
        \A i, j \in 1..Len(candidates) :
            (candidates[i].source = "pattern" /\ candidates[j].source = "frequency") => i < j

\* a returned list where a pattern candidate stands before a frequency
\* candidate of a larger count
C1_Witness ==
    /\ Returned
    /\ \E i, j \in 1..Len(candidates) :
          /\ i < j
          /\ candidates[i].source = "pattern"
          /\ candidates[j].source = "frequency"
          /\ candidates[i].count < candidates[j].count

C3_Original == (Returned /\ NoClasses(doc)) => candidates = << >>

\* C3 amended: a page without any class attribute and with fewer than 3
\* article elements and fewer than 3 li elements gives the empty list.
C3_Amended ==
    (Returned /\ NoClasses(doc) /\ TagCount(doc, "article") < 3 /\ TagCount(doc, "li") < 3)
        => candidates = << >>

\* a page of two li elements and no class, detection having returned nothing
C3_Witness ==
    /\ Returned
    /\ NoClasses(doc)
    /\ TagCount(doc, "li") = 2
    /\ candidates = << >>

\* the page of C4: three <div class="item">, each with an h2 and a p child
SamplePage ==
    << Node("div", <<"item">>, 0), Node("h2", << >>, 1), Node("p", << >>, 1),
       Node("div", <<"item">>, 0), Node("h2", << >>, 4), Node("p", << >>, 4),
       Node("div", <<"item">>, 0), Node("h2", << >>, 7), Node("p", << >>, 7) >>

HasCandidate(sel, n) ==
    \E i \in 1..Len(candidates) : candidates[i].selector = sel /\ candidates[i].count = n

\* C4 as stated: on the sample page the returned list has a candidate with
\* selector .item and count 3.
C4_Original == (Returned /\ doc = SamplePage) => HasCandidate(".item", 3)

\* C4 amended: on the sample page the returned list has a candidate with
\* selector div.item and count 3, and none with selector .item.
C4_Amended ==
    (Returned /\ doc = SamplePage) =>
        /\ HasCandidate("div.item", 3)
        /\ \A i \in 1..Len(candidates) : candidates[i].selector # ".item"

\* detection has returned on the sample page
C4_Witness == Returned /\ doc = SamplePage

(***************************************************************************)
(* Vocabulary of the claims about the custom scraper.                      *)
(***************************************************************************)
Scraped == xpc = "done" /\ outcome # "error"

Records == {data[i] : i \in 1..Len(data)}

\* the text nodes of a container that are not empty once trimmed, trimmed
NonBlank(container) ==
    LET trimmed == [i \in 1..Len(container) |-> Strip(container[i])]
    IN SelectSeq(trimmed, LAMBDA t : t # << >>)

\* a container with a text of more than 2 characters among the first 10 considered
HasQualifying(container) ==
    \E n \in 1..Len(NonBlank(container)) : n <= 10 /\ Len(NonBlank(container)[n]) > 2

\* the containers the handler went through: the first max_items of the matches
Visited == 1..(IF Len(matched) < max_items THEN Len(matched) ELSE max_items)

\* C5: every record has the keys field_1..field_k for some k >= 1, without a gap.
C5_Contiguous ==
    Scraped =>
        \A r \in Records :
            \E k \in 1..MaxFields : DOMAIN r = {"field_" \o ToString(n) : n \in 1..k}

\* C6: no record has more than 10 keys and every value is longer than 2
\* characters once trimmed.
C6_Bounded ==
    Scraped =>
        \A r \in Records :
            /\ Cardinality(DOMAIN r) <= 10
            /\ \A key \in DOMAIN r : Len(Strip(r[key])) > 2

\* one container with more than 10 long texts and a short one, scraped to a
\* record of 10 keys
C6_Witness ==
    /\ Scraped
    /\ Len(matched) = 1
    /\ Cardinality({n \in 1..Len(matched[1]) : Len(Strip(matched[1][n])) > 2}) > 10
    /\ \E n \in 1..Len(matched[1]) : Strip(matched[1][n]) # << >> /\ Len(Strip(matched[1][n])) <= 2
    /\ Len(data) = 1
    /\ Cardinality(DOMAIN data[1]) = 10

\* C7: the records are as many as the containers gone through that have a
\* qualifying text among those considered; a container without one gives no
\* record and does not stop the others.
C7_SkipsEmpty ==
    Scraped => Len(data) = Cardinality({i \in Visited : HasQualifying(matched[i])})

\* two containers gone through, the first without a qualifying text, one record
C7_Witness ==
    /\ Scraped
    /\ Len(matched) = 2
    /\ max_items = 2
    /\ ~HasQualifying(matched[1])
    /\ HasQualifying(matched[2])
    /\ Len(data) = 1

(***************************************************************************)
(* Vocabulary of the claims about the fixed profiles.                      *)
(***************************************************************************)
Ran == fpc = "done"

\* a block with every sub-element the profile reads, in the form it reads it
WellFormed(e) ==
    IF profile = "quotes" THEN e.text /\ e.author
    ELSE /\ e.h3 /\ e.a /\ e.title
         /\ e.hasPrice /\ IsNumber(DropPound(e.price))
         /\ e.hasRating /\ Len(e.rating) >= 2
         /\ e.avail

\* the well-formed blocks on page p, 0 for a page that did not arrive
GoodOn(p) ==
    IF site[p].status # "ok" THEN 0
    ELSE Cardinality({k \in 1..Len(site[p].entries) : WellFormed(site[p].entries[k])})

RECURSIVE GoodUpTo(_)
GoodUpTo(p) == IF p = 0 THEN 0 ELSE GoodUpTo(p - 1) + GoodOn(p)

\* C8: a block with a missing or unparsable sub-element is skipped alone: the
\* scrape does not raise and returns one record for every well-formed block
\* of every page.
C8_SkipsOnlyBadRecord ==
    Ran => (raised = "none" /\ Len(records) = GoodUpTo(Len(site)))

FailedPages == {p \in 1..Len(site) : site[p].status \in FetchFailures}

Fetched == {fetches[i] : i \in 1..Len(fetches)}

\* C9: a failed fetch raises nothing and counts as an empty page: scrape_quotes
\* returns the empty list, scrape_books has no record of that page and goes on
\* to fetch every page after it up to num_pages.
C9_FailedFetchIsEmpty ==
    Ran =>
        \A p \in FailedPages \cap Fetched :
            /\ raised \notin RequestExceptions
            /\ profile = "quotes" => (raised = "none" /\ records = << >>)
            /\ profile = "books" =>
                  /\ \A i \in 1..Len(records) : records[i].page # p
                  /\ \A q \in p..Len(site) : q \in Fetched

(***************************************************************************)
(* The claim about the timing.                                             *)
(***************************************************************************)
\* C10: every request is sent after a wait of at least the politeness delay
\* since the response to the one before it, and at most one request is in
\* flight.
C10_Politeness ==
    /\ inflight <= 1
    /\ (apc = "wait" /\ nfetch >= 2) => lastGap >= Delay

(***************************************************************************)
(* Claims about the returned list as a whole.                              *)
(***************************************************************************)
\* C11: whatever the document, and also when the fetch or the parse fails,
\* the sequence that detection returns has at most 5 entries.
C11_AtMostFive == dpc = "done" => Len(candidates) <= TopN

\* detection has returned exactly 5 entries on a page where more than 5
\* patterns match, so that truncation dropped a candidate
C11_Witness ==
    /\ Returned
    /\ Len(candidates) = TopN
    /\ Cardinality(MatchingPatterns(doc)) > TopN

RECURSIVE ListedPatterns(_, _)
\* the candidates of the patterns from the k-th on that select at least 3
\* elements, in the order of the pattern list
ListedPatterns(d, k) ==
    IF k > Len(common_patterns) THEN << >>
    ELSE LET pattern == common_patterns[k]
             elements == Select(d, pattern)
         IN (IF Len(elements) >= MinCount
             THEN <<Candidate(pattern, Len(elements), elements[1], "pattern")>>
             ELSE << >>) \o ListedPatterns(d, k + 1)

\* the frequency candidates, in descending order of occurrence count
RankedFrequency(d) ==
    FrequencyLoop(d, MostCommon(ClassCounter(d), MostCommonLimit), << >>, 1)

\* C12: the returned list is the first 5 entries of the pattern candidates
\* in the order of the pattern list followed by the frequency candidates in
\* descending order of occurrence count, so that of two matching patterns
\* the one earlier in the pattern list comes first and survives truncation.
C12_PatternListOrder ==
    Returned => candidates = Take(ListedPatterns(doc, 1) \o RankedFrequency(doc), TopN)

\* C13: every returned candidate, of either source, has a count of at least
\* 3 that equals the number of elements its selector selects in the
\* document, also when an element repeats a class name in its class list.
C13_CountIsSelected ==
    Returned =>
        \A i \in 1..Len(candidates) :
            /\ candidates[i].count >= MinCount
            /\ candidates[i].count = Len(Select(doc, candidates[i].selector))

====
